---- MODULE Spec2Model ----
(***************************************************************************)
(* A model of explode-env: the placeholder scanner of explode() in its     *)
(* options form (src/src/index.ts) and its simple form                     *)
(* (src/unnamed/part_000), with getTemplateKey and the character-class     *)
(* predicates they share.                                                  *)
(*                                                                         *)
(* A string is a sequence of one-character strings.  Source indices are    *)
(* 0-based; the element at source index n of s is s[n + 1].                *)
(* An optional value (string | undefined) is a sequence of at most one     *)
(* string: << >> is undefined, <<s>> is the string s.                      *)
(* A mapping object is a function from its own keys to optional values.    *)
(* The keys drawn here are never property names of Object.prototype, so    *)
(* `k in m` is membership in DOMAIN m.                                     *)
(***************************************************************************)
EXTENDS Integers, Sequences, FiniteSets

VARIABLES heap, mref, str, options, variant, buffer, i, j, pc

vars == <<heap, mref, str, options, variant, buffer, i, j, pc>>

\* The largest number of segments a template is built from.
MaxSegs == 2

-----------------------------------------------------------------------------
(* Values and strings                                                      *)

Undefined == << >>

Some(s) == <<s>>

\* String(v) as `buffer += v` applies it: undefined becomes the text "undefined".
ToString(v) ==
    IF v = Undefined THEN <<"u", "n", "d", "e", "f", "i", "n", "e", "d">> ELSE v[1]

Min(a, b) == IF a < b THEN a ELSE b

\* s.slice(from, to) for 0 <= from, with `to` clamped to the length.
Slice(s, from, to) == SubSeq(s, from + 1, Min(to, Len(s)))

\* s.slice(from)
SliceFrom(s, from) == SubSeq(s, from + 1, Len(s))

\* s.indexOf(c): the first 0-based index of c in s, or -1.
IndexOf(s, c) ==
    IF \E n \in 1..Len(s) : s[n] = c
    THEN (CHOOSE n \in 1..Len(s) : s[n] = c /\ \A p \in 1..(n - 1) : s[p] # c) - 1
    ELSE -1

\* s[n] of the source: a one-element sequence, or Undefined past the end.
CharAt(s, n) == IF n >= 0 /\ n < Len(s) THEN <<s[n + 1]>> ELSE Undefined

-----------------------------------------------------------------------------
(* Character classes                                                       *)

LowerCase ==
    {"a", "b", "c", "d", "e", "f", "g", "h", "i", "j", "k", "l", "m",
     "n", "o", "p", "q", "r", "s", "t", "u", "v", "w", "x", "y", "z"}

UpperCase ==
    {"A", "B", "C", "D", "E", "F", "G", "H", "I", "J", "K", "L", "M",
     "N", "O", "P", "Q", "R", "S", "T", "U", "V", "W", "X", "Y", "Z"}

Digits == {"0", "1", "2", "3", "4", "5", "6", "7", "8", "9"}

isAlphaNumeric(char) ==
    \/ char = "_"
    \/ char \in LowerCase
    \/ char \in UpperCase
    \/ char \in Digits

isShellSpecialVarNoDigits(c) ==
    c # Undefined /\ c[1] \in {"*", "#", "$", "@", "!", "?", "-"}

\* c is str[0]: an optional character.
isShellSpecialVar(c) ==
    c # Undefined /\ c[1] \in {"*", "#", "$", "@", "!", "?", "-"} \cup Digits

-----------------------------------------------------------------------------
(* getTemplateKey                                                          *)

\* The length of the maximal run of word characters at the start of s.
RECURSIVE WordRun(_, _)
WordRun(s, n) ==
    IF n < Len(s) /\ isAlphaNumeric(s[n + 1]) THEN WordRun(s, n + 1) ELSE n

getTemplateKey(s) ==
    IF CharAt(s, 0) = <<"{">>
    THEN LET end == IndexOf(s, "}") IN
         IF end = 1 THEN [key |-> << >>, length |-> 2]
         ELSE IF end = -1 THEN [key |-> << >>, length |-> Len(SliceFrom(s, 0))]
         ELSE [key |-> Slice(s, 1, end), length |-> end + 1]
    ELSE IF isShellSpecialVar(CharAt(s, 0)) THEN [key |-> << >>, length |-> 0]
    ELSE LET n == WordRun(s, 0) IN [key |-> Slice(s, 0, n), length |-> n]

-----------------------------------------------------------------------------
(* key.split(/:=|:-/) and key.includes(":=")                               *)

IsOpAt(s, n) ==
    /\ n + 1 < Len(s)
    /\ s[n + 1] = ":"
    /\ s[n + 2] \in {"=", "-"}

\* The 0-based index of the first `:=` or `:-` of s at or after `from`, or -1.
RECURSIVE FirstOp(_, _)
FirstOp(s, from) ==
    IF from + 1 >= Len(s) THEN -1
    ELSE IF IsOpAt(s, from) THEN from
    ELSE FirstOp(s, from + 1)

\* String.prototype.split with a separator regex: every match separates.
RECURSIVE Split(_)
Split(s) ==
    LET p == FirstOp(s, 0) IN
    IF p = -1 THEN <<s>>
    ELSE <<Slice(s, 0, p)>> \o Split(SliceFrom(s, p + 2))

Includes(s, a, b) == \E n \in 1..(Len(s) - 1) : s[n] = a /\ s[n + 1] = b

\* const [realKey, defaultValue] = key.split(/:=|:-/)
RealKey(key) == Split(key)[1]

DefaultValue(key) ==
    LET parts == Split(key) IN
    IF Len(parts) >= 2 THEN Some(parts[2]) ELSE Undefined

\* A string | undefined used as a condition, and defaultValue?.length.
Truthy(v) == v # Undefined /\ Len(v[1]) > 0

-----------------------------------------------------------------------------
(* Mapping objects                                                         *)

Has(m, k) == k \in DOMAIN m

Get(m, k) == IF k \in DOMAIN m THEN m[k] ELSE Undefined

Put(m, k, v) == [x \in DOMAIN m \cup {k} |-> IF x = k THEN v ELSE m[x]]

EmptyMapping == [x \in {} |-> Undefined]

\* The object `const m = { ...mapping }` names: a fresh one, not the caller's.
WorkingRefAlias == "caller"

WorkingRef == "work"

-----------------------------------------------------------------------------
(* What one `$` emits                                                      *)

\* The slice added for an empty key: str.slice(j, j + length + 1).
InvalidTextDollarOnly(s, jj, length) == Slice(s, jj, jj + 1)

InvalidText(s, jj, length) == Slice(s, jj, jj + length + 1)

\* The text the options form adds to the buffer for a non-empty key.
Emitted(m, opts, s, jj, key, length) ==
    LET realKey == RealKey(key)
        defaultValue == DefaultValue(key)
    IN  IF Has(m, realKey) THEN ToString(m[realKey])
        ELSE IF Truthy(defaultValue) /\ ~opts.ignoreDefaultExpansion
             THEN defaultValue[1]
        ELSE IF opts.ignoreUnsetVars THEN Slice(s, jj, jj + length + 1)
        ELSE << >>

\* The working mapping after the options form has handled a non-empty key.
Assigned(m, opts, key) ==
    LET realKey == RealKey(key)
        defaultValue == DefaultValue(key)
    IN  IF /\ ~opts.ignoreDefaultExpansion
           /\ ~Has(m, realKey)
           /\ Truthy(defaultValue)
           /\ Includes(key, ":", "=")
        THEN Put(m, realKey, defaultValue)
        ELSE m

\* The text the simple form adds: mapping[key] ?? "".
EmittedSimple(m, key) ==
    IF Get(m, key) = Undefined THEN << >> ELSE Get(m, key)[1]

\* j after `j += length` and the loop's j++.
NextJStuck(jj, length) == jj + length

NextJ(jj, length) == jj + length + 1

-----------------------------------------------------------------------------
(* Inputs                                                                  *)

Keys == {<<"k">>}

Ops == {<<":", "-">>, <<":", "=">>}

Defaults == {<< >>, <<"a">>, <<"a", ":", "-", "b">>, <<"a", ":", "=", "b">>}

Braced ==
    {<<"$", "{">> \o k \o <<"}">> : k \in Keys}
    \cup {<<"$", "{">> \o k \o o \o d \o <<"}">> : k \in Keys, o \in Ops, d \in Defaults}

Segments ==
    Braced \cup {<<"$">>, <<"$", "{">>, <<"$", "{", "}">>, <<"$", "k">>,
                 <<"k">>, <<"1">>, <<"!">>, <<"}">>}

RECURSIVE TemplatesOf(_)
TemplatesOf(n) ==
    IF n = 0 THEN {<< >>}
    ELSE LET T == TemplatesOf(n - 1) IN T \cup {t \o s : t \in T, s \in Segments}

Templates == TemplatesOf(MaxSegs)

OptionValues == [ignoreUnsetVars : BOOLEAN, ignoreDefaultExpansion : BOOLEAN]

\* DEFAULT_OPTIONS
DefaultOptions == [ignoreUnsetVars |-> FALSE, ignoreDefaultExpansion |-> FALSE]

Mappings ==
    {EmptyMapping,
     [x \in {<<"k">>} |-> Some(<<"v">>)],
     [x \in {<<"k">>} |-> Some(<< >>)],
     [x \in {<<"k">>} |-> Undefined],
     [x \in {<<"1">>} |-> Some(<<"x">>)]}

-----------------------------------------------------------------------------
(* The state machine                                                       *)

\* The mapping the running call reads and writes.
m == heap[mref]

Init ==
    /\ heap \in [caller : Mappings, work : {EmptyMapping}]
    /\ mref = "caller"
    /\ str = << >>
    /\ options = DefaultOptions
    /\ variant = "options"
    /\ buffer = << >>
    /\ i = 0
    /\ j = 0
    /\ pc = "idle"

\* explode(str, mapping, options): the copy of the mapping and the loop's setup.
CallOptions ==
    /\ pc = "idle"
    /\ \E s \in Templates, opts \in OptionValues :
        /\ str' = s
        /\ options' = opts
    /\ variant' = "options"
    /\ mref' = WorkingRef
    /\ heap' = [heap EXCEPT ![WorkingRef] = heap.caller]
    /\ buffer' = << >>
    /\ i' = 0
    /\ j' = 0
    /\ pc' = "loop"

\* explode(str, mapping) of the simple form: it reads the caller's mapping.
CallSimple ==
    /\ pc = "idle"
    /\ \E s \in Templates : str' = s
    /\ options' = DefaultOptions
    /\ variant' = "simple"
    /\ mref' = "caller"
    /\ buffer' = << >>
    /\ i' = 0
    /\ j' = 0
    /\ pc' = "loop"
    /\ UNCHANGED heap

\* One iteration at a character that is not `$`.
LoopLiteral ==
    /\ pc = "loop"
    /\ j < Len(str)
    /\ str[j + 1] # "$"
    /\ j' = j + 1
    /\ UNCHANGED <<heap, mref, str, options, variant, buffer, i, pc>>

\* One iteration of the options form at a `$`.
LoopDollar ==
    /\ pc = "loop"
    /\ variant = "options"
    /\ j < Len(str)
    /\ str[j + 1] = "$"
    /\ LET t == getTemplateKey(SliceFrom(str, j + 1))
           flushed == buffer \o Slice(str, i, j)
       IN  /\ IF t.key = << >>
              THEN /\ buffer' = flushed \o InvalidText(str, j, t.length)
                   /\ UNCHANGED heap
              ELSE /\ buffer' = flushed \o Emitted(m, options, str, j, t.key, t.length)
                   /\ heap' = [heap EXCEPT ![mref] = Assigned(m, options, t.key)]
           /\ j' = NextJ(j, t.length)
           /\ i' = j + t.length + 1
    /\ UNCHANGED <<mref, str, options, variant, pc>>

\* One iteration of the simple form at a `$`.
LoopDollarSimple ==
    /\ pc = "loop"
    /\ variant = "simple"
    /\ j < Len(str)
    /\ str[j + 1] = "$"
    /\ LET t == getTemplateKey(SliceFrom(str, j + 1))
           flushed == buffer \o Slice(str, i, j)
       IN  /\ IF t.key = << >>
              THEN buffer' = flushed \o InvalidText(str, j, t.length)
              ELSE buffer' = flushed \o EmittedSimple(m, t.key)
           /\ j' = NextJ(j, t.length)
           /\ i' = j + t.length + 1
    /\ UNCHANGED <<heap, mref, str, options, variant, pc>>

\* The loop's exit: the trailing literal run is flushed and buffer returned.
LoopExit ==
    /\ pc = "loop"
    /\ j >= Len(str)
    /\ buffer' = buffer \o SliceFrom(str, i)
    /\ pc' = "done"
    /\ UNCHANGED <<heap, mref, str, options, variant, i, j>>

\* The caller has the result; the call's locals are gone, the objects stay.
Return ==
    /\ pc = "done"
    /\ pc' = "idle"
    /\ str' = << >>
    /\ options' = DefaultOptions
    /\ variant' = "options"
    /\ mref' = "caller"
    /\ buffer' = << >>
    /\ i' = 0
    /\ j' = 0
    /\ UNCHANGED heap

Next ==
    \/ CallOptions
    \/ CallSimple
    \/ LoopLiteral
    \/ LoopDollar
    \/ LoopDollarSimple
    \/ LoopExit
    \/ Return

Spec == Init /\ [][Next]_vars

-----------------------------------------------------------------------------
(* Vocabulary of the properties                                            *)

\* The scan is at a `$` it is about to handle.
AtDollar == pc = "loop" /\ j < Len(str) /\ str[j + 1] = "$"

\* The buffer once the literal run before the `$` is flushed.
Flushed == buffer \o Slice(str, i, j)

\* The key and consumed length of the placeholder at the scan cursor.
Parsed == getTemplateKey(SliceFrom(str, j + 1))

\* The placeholder's source text, from `$` through its last consumed character.
Verbatim == Slice(str, j, j + Parsed.length + 1)

HasOp(key) == FirstOp(key, 0) # -1

\* The key split at its FIRST operator only: the text before it, the operator,
\* and the whole text after it.
KeyBeforeOp(key) == IF HasOp(key) THEN Slice(key, 0, FirstOp(key, 0)) ELSE key

OpOf(key) == Slice(key, FirstOp(key, 0), FirstOp(key, 0) + 2)

TextAfterOp(key) == SliceFrom(key, FirstOp(key, 0) + 2)

\* The options form is about to handle a well-formed placeholder.
AtPlaceholder == AtDollar /\ variant = "options" /\ Parsed.key # << >>

AssignOf(k, d) == <<"$", "{">> \o k \o <<":", "=">> \o d \o <<"}">>

\* The placeholders that reference k.
RefsTo(k) ==
    {<<"$">> \o k, <<"$", "{">> \o k \o <<"}">>}
    \cup {<<"$", "{">> \o k \o o \o d \o <<"}">> : o \in Ops, d \in Defaults}

SpecialChars ==
    {"*", "#", "$", "@", "!", "?", "-", "0", "1", "2", "3", "4", "5", "6", "7", "8", "9"}

WordChars == {"_"} \cup LowerCase \cup UpperCase \cup Digits

\* The `$` at position p (1-based) of s opens a brace group that never closes.
Unterminated(s, p) ==
    /\ p < Len(s)
    /\ s[p] = "$"
    /\ s[p + 1] = "{"
    /\ \A r \in (p + 2)..Len(s) : s[r] # "}"

\* The `$` at position p of s starts no placeholder.
Unrecognized(s, p) ==
    \/ p = Len(s)
    \/ p < Len(s) /\ s[p + 1] \in SpecialChars
    \/ p < Len(s) /\ s[p + 1] \notin WordChars \cup {"{"}
    \/ Unterminated(s, p)

\* Every `$` of s is unrecognized, or lies inside an unterminated brace group.
AllUnrecognized(s) ==
    \A p \in 1..Len(s) :
        s[p] = "$" => Unrecognized(s, p) \/ \E q \in 1..(p - 1) : Unterminated(s, q)

-----------------------------------------------------------------------------
(* Properties                                                              *)

\* C1: with ignoreDefaultExpansion false, once `${k:=d}` has been processed
\* with k absent from the mapping and d non-empty, a later placeholder that
\* references k emits d: the template `${k:=d}` followed by a reference to k
\* yields d twice.
C1_LaterReferenceEmitsDefault ==
    \A k \in Keys, d \in Defaults \ {<< >>} : \A r \in RefsTo(k) :
        ( /\ pc = "done"
          /\ variant = "options"
          /\ ~options.ignoreDefaultExpansion
          /\ ~Has(heap.caller, k)
          /\ str = AssignOf(k, d) \o r )
        => buffer = d \o d

\* C2: a well-formed placeholder whose realKey is absent emits, in this
\* order of priority, its non-empty default text when ignoreDefaultExpansion
\* is false, else its own text verbatim when ignoreUnsetVars is true, else
\* nothing; a realKey that is present emits its value whatever the flags.
C2_EmitsByPriority ==
    [][AtPlaceholder =>
        LET key == Parsed.key
            realKey == KeyBeforeOp(key)
            expected ==
                IF HasOp(key) /\ TextAfterOp(key) # << >>
                              /\ ~options.ignoreDefaultExpansion
                THEN TextAfterOp(key)
                ELSE IF options.ignoreUnsetVars THEN Verbatim
                ELSE << >>
        IN  IF Has(m, realKey)
            THEN m[realKey] # Undefined => buffer' = Flushed \o m[realKey][1]
            ELSE buffer' = Flushed \o expected]_vars

\* C3: explode never changes the caller's mapping, and every call of the
\* options form starts from the caller's mapping, not from what an earlier
\* call assigned.
C3_CallerMappingUnchanged ==
    [][/\ heap'.caller = heap.caller
       /\ (pc = "idle" /\ pc' = "loop") => heap'[mref'] = heap.caller]_vars

\* C3 witness: a call has assigned a default to k in its working mapping, the
\* caller's mapping has no k, and the next call can start.
C3_Witness ==
    /\ pc = "idle"
    /\ Has(heap.work, <<"k">>)
    /\ ~Has(heap.caller, <<"k">>)

\* C4: in both forms every loop iteration moves the scan cursor strictly
\* forward and never past the end of the template, the next unflushed
\* character is never before the cursor after a `$`, and the loop ends by
\* returning once the cursor reaches the end.
C4_ScanAdvances ==
    [][pc = "loop" =>
        \/ pc' = "done" /\ j = Len(str) /\ Len(buffer') >= Len(buffer)
        \/ /\ pc' = "loop"
           /\ j < j'
           /\ j' <= Len(str)
           /\ i' <= j'
           /\ AtDollar => i' = j']_vars

\* C4 witness: `${}` followed by a trailing `$` has been scanned to its end.
C4_Witness ==
    /\ pc = "done"
    /\ str = <<"$", "{", "}", "$">>
    /\ j = Len(str)

\* C5: a template whose every `$` is unrecognized (trailing, followed by a
\* non-word character or by a shell special character, or opening a brace
\* group that never closes) is returned unchanged, for every mapping and
\* options, the mapping's keys included.
C5_UnrecognizedPassThrough ==
    (pc = "done" /\ AllUnrecognized(str)) => buffer = str

\* C5 witness: `$1` came back as `$1` although the mapping has the key 1.
C5_Witness ==
    /\ pc = "done"
    /\ str = <<"$", "1">>
    /\ Has(heap.caller, <<"1">>)
    /\ buffer = str

\* C6: a placeholder whose key is present in the mapping with the value
\* undefined emits nothing, in the options form and in the simple form.
C6_UndefinedEmitsNothing ==
    [][(AtDollar /\ Parsed.key # << >>) =>
        LET looked == IF variant = "options" THEN KeyBeforeOp(Parsed.key)
                      ELSE Parsed.key
        IN  (Has(m, looked) /\ m[looked] = Undefined) => buffer' = Flushed]_vars

\* C7 as stated: explode("${}", {}) returns the empty string.
C7_EmptyBracesEmitNothing ==
    (pc = "done" /\ str = <<"$", "{", "}">>) => buffer = << >>

\* C7, amended: wherever the scan meets `${}` it consumes exactly the three
\* characters `$`, `{`, `}` and emits them verbatim.
C7_EmptyBracesVerbatim ==
    [][(AtDollar /\ Slice(str, j, j + 3) = <<"$", "{", "}">>) =>
        /\ buffer' = Flushed \o <<"$", "{", "}">>
        /\ j' = j + 3
        /\ i' = j + 3
        /\ heap' = heap]_vars

\* C7 witness: explode("${}", m) has returned "${}".
C7_Witness ==
    /\ pc = "done"
    /\ str = <<"$", "{", "}">>
    /\ buffer = <<"$", "{", "}">>

\* C8: the working mapping is extended only by a placeholder whose operator
\* is `:=` and only when ignoreDefaultExpansion is false; a `:-` placeholder
\* and any placeholder under ignoreDefaultExpansion leave it as it is.
C8_OnlyAssignExtends ==
    [][(pc = "loop" /\ heap'[mref'] # heap[mref]) =>
        /\ AtPlaceholder
        /\ ~options.ignoreDefaultExpansion
        /\ HasOp(Parsed.key)
        /\ OpOf(Parsed.key) = <<":", "=">>]_vars

\* C9: a braced key is split at its first `:-` or `:=` only, so with realKey
\* unset the whole text after that operator is the default that is emitted.
C9_SplitAtFirstOperator ==
    [][( /\ AtPlaceholder
         /\ HasOp(Parsed.key)
         /\ ~options.ignoreDefaultExpansion
         /\ ~Has(m, KeyBeforeOp(Parsed.key))
         /\ TextAfterOp(Parsed.key) # << >> )
        => buffer' = Flushed \o TextAfterOp(Parsed.key)]_vars

\* C10: with realKey unset and ignoreDefaultExpansion false an empty default
\* is what is emitted: `${k:-}` and `${k:=}` emit nothing for both values of
\* ignoreUnsetVars.
C10_EmptyDefaultEmitted ==
    [][( /\ AtPlaceholder
         /\ HasOp(Parsed.key)
         /\ ~options.ignoreDefaultExpansion
         /\ ~Has(m, KeyBeforeOp(Parsed.key))
         /\ TextAfterOp(Parsed.key) = << >> )
        => buffer' = Flushed]_vars

====
